---- MODULE Spec2Model ----
(***************************************************************************)
(* A model of the OSS client library of src/src/lib.rs: the construction   *)
(* of an OSSClient (new, from_json, from_file), the URL signer             *)
(* (generate_signed_url, get_to_be_signed) and the one-shot object         *)
(* operations (put, delete, get) against the HTTP collaborator.            *)
(*                                                                         *)
(* A Rust string is a sequence of one-character strings, a byte vector a   *)
(* sequence of numbers 0..255.                                             *)
(***************************************************************************)
EXTENDS Integers, Sequences, FiniteSets, TLC

(***************************************************************************)
(* Bounds of the model.                                                    *)
(***************************************************************************)
\* The width, in bits, that stands for the 64 bits of u64.
WordBits == 6
\* The clock readings get_current_secs() is taken to return: 0..MaxClock.
MaxClock == 2

Modulus == 2 ^ WordBits
MaxU64 == Modulus - 1

(***************************************************************************)
(* Characters and bytes: str::as_bytes and its inverse on ASCII text.      *)
(***************************************************************************)
AsciiPrintable ==
  << " ", "!", "\"", "#", "$", "%", "&", "'", "(", ")", "*", "+", ",", "-", ".", "/",
     "0", "1", "2", "3", "4", "5", "6", "7", "8", "9", ":", ";", "<", "=", ">", "?",
     "@", "A", "B", "C", "D", "E", "F", "G", "H", "I", "J", "K", "L", "M", "N", "O",
     "P", "Q", "R", "S", "T", "U", "V", "W", "X", "Y", "Z", "[", "\\", "]", "^", "_",
     "(grave)", "a", "b", "c", "d", "e", "f", "g", "h", "i", "j", "k", "l", "m", "n", "o",
     "p", "q", "r", "s", "t", "u", "v", "w", "x", "y", "z", "{", "|", "}", "~" >>

\* The byte of each character: its ASCII code.
OrdTable ==
  [c \in {AsciiPrintable[i] : i \in 1..Len(AsciiPrintable)} \cup {"\n"} |->
     IF c = "\n" THEN 10
     ELSE 31 + (CHOOSE i \in 1..Len(AsciiPrintable) : AsciiPrintable[i] = c)]

Ord(c) == OrdTable[c]

Chr(n) == IF n = 10 THEN "\n" ELSE AsciiPrintable[n - 31]

as_bytes(s) == [i \in 1..Len(s) |-> Ord(s[i])]

from_utf8(bs) == [i \in 1..Len(bs) |-> Chr(bs[i])]

DecDigits == << "0", "1", "2", "3", "4", "5", "6", "7", "8", "9" >>

HexDigits ==
  << "0", "1", "2", "3", "4", "5", "6", "7", "8", "9", "A", "B", "C", "D", "E", "F" >>

\* u64::to_string: the decimal digits, most significant first, no leading zero.
RECURSIVE to_string(_)
to_string(n) ==
  IF n < 10 THEN << DecDigits[n + 1] >>
  ELSE Append(to_string(n \div 10), DecDigits[(n % 10) + 1])

IsUnreserved(c) ==
  LET b == Ord(c)
  IN  \/ (48 <= b /\ b <= 57)
      \/ (65 <= b /\ b <= 90)
      \/ (97 <= b /\ b <= 122)
      \/ c \in {"-", "_", ".", "~"}

\* urlencoding::encode: every byte but the unreserved ones becomes %XX.
RECURSIVE urlencoding_encode(_)
urlencoding_encode(s) ==
  IF s = << >> THEN << >>
  ELSE LET c == Head(s)
           b == Ord(c)
           e == IF IsUnreserved(c) THEN << c >>
                ELSE << "%", HexDigits[(b \div 16) + 1], HexDigits[(b % 16) + 1] >>
       IN  e \o urlencoding_encode(Tail(s))

Base64Alphabet ==
  << "A", "B", "C", "D", "E", "F", "G", "H", "I", "J", "K", "L", "M", "N", "O", "P",
     "Q", "R", "S", "T", "U", "V", "W", "X", "Y", "Z", "a", "b", "c", "d", "e", "f",
     "g", "h", "i", "j", "k", "l", "m", "n", "o", "p", "q", "r", "s", "t", "u", "v",
     "w", "x", "y", "z", "0", "1", "2", "3", "4", "5", "6", "7", "8", "9", "+", "/" >>

\* base64::encode: the standard alphabet, padded with the equals sign.
RECURSIVE base64_encode(_)
base64_encode(bs) ==
  IF Len(bs) = 0 THEN << >>
  ELSE IF Len(bs) = 1 THEN
    << Base64Alphabet[(bs[1] \div 4) + 1],
       Base64Alphabet[((bs[1] % 4) * 16) + 1], "=", "=" >>
  ELSE IF Len(bs) = 2 THEN
    << Base64Alphabet[(bs[1] \div 4) + 1],
       Base64Alphabet[((bs[1] % 4) * 16) + (bs[2] \div 16) + 1],
       Base64Alphabet[((bs[2] % 16) * 4) + 1], "=" >>
  ELSE
    << Base64Alphabet[(bs[1] \div 4) + 1],
       Base64Alphabet[((bs[1] % 4) * 16) + (bs[2] \div 16) + 1],
       Base64Alphabet[((bs[2] % 16) * 4) + (bs[3] \div 64) + 1],
       Base64Alphabet[(bs[3] % 64) + 1] >>
    \o base64_encode(SubSeq(bs, 4, Len(bs)))

to_base64(mac_result) == base64_encode(mac_result)

(***************************************************************************)
(* The keyed hash.  HMAC-SHA1 is the crate `crypto`; here it is a          *)
(* deterministic keyed digest of DigestLen bytes that depends on every     *)
(* byte of the key and of the message and on their order.                  *)
(***************************************************************************)
DigestLen == 20

RECURSIVE AbsorbFrom(_, _, _)
AbsorbFrom(h, bs, i) ==
  IF i > Len(bs) THEN h
  ELSE AbsorbFrom(((h * 31) + bs[i] + 7) % 65521, bs, i + 1)

Absorb(h, bs) == AbsorbFrom(h, bs, 1)

\* The digest bytes drawn from the absorbed state h.
Squeeze(h) ==
  [i \in 1..DigestLen |-> (((h + i) * ((2 * i) + 1)) + (h \div 256)) % 256]

calc_hmac_sha1(key, message) == Squeeze(Absorb(Absorb(1, key) + 1, message))

(***************************************************************************)
(* String constants of the source.                                         *)
(***************************************************************************)
OSS_VERB_GET == << "G", "E", "T" >>
OSS_VERB_PUT == << "P", "U", "T" >>
OSS_VERB_DELETE == << "D", "E", "L", "E", "T", "E" >>

push_str(s, t) == s \o t

\* iff!(is_https, "https://", "http://")
Scheme(is_https) ==
  IF is_https THEN << "h", "t", "t", "p", "s", ":", "/", "/" >>
  ELSE << "h", "t", "t", "p", ":", "/", "/" >>

(***************************************************************************)
(* get_to_be_signed                                                        *)
(***************************************************************************)
get_to_be_signed_no_blank_lines(verb, expire_secs, bucket_name, key) ==
  verb \o << "\n" >> \o to_string(expire_secs) \o << "\n", "/" >>
       \o bucket_name \o << "/" >> \o key

get_to_be_signed(verb, expire_secs, bucket_name, key) ==
  LET s1 == push_str(<< >>, verb)
      s2 == push_str(s1, << "\n" >>)
      s3 == push_str(s2, << "\n" >>)
      s4 == push_str(s3, << "\n" >>)
      s5 == push_str(s4, to_string(expire_secs))
      s6 == push_str(s5, << "\n" >>)
      s7 == push_str(s6, << "/" >>)
      s8 == push_str(s7, bucket_name)
      s9 == push_str(s8, << "/" >>)
  IN  push_str(s9, key)

(***************************************************************************)
(* u64 addition: `current_secs + expire_in_seconds`.  A sum that does not  *)
(* fit panics in a build with overflow checks and wraps in one without.    *)
(***************************************************************************)
u64_add(a, b) ==
  IF a + b <= MaxU64 THEN { [panic |-> FALSE, value |-> a + b] }
  ELSE { [panic |-> TRUE, value |-> 0],
         [panic |-> FALSE, value |-> (a + b) % Modulus] }

(***************************************************************************)
(* OSSClient and its signer.                                               *)
(***************************************************************************)
\* The place of a client before any constructor has returned one.
NoClient ==
  [constructed |-> FALSE, endpoint |-> << >>, access_key_id |-> << >>,
   access_key_secret |-> << >>]

new(endpoint, access_key_id, access_key_secret) ==
  [constructed |-> TRUE, endpoint |-> endpoint, access_key_id |-> access_key_id,
   access_key_secret |-> access_key_secret]

SignedUrl(self, verb, bucket_name, key, expire_secs, is_https) ==
  LET u1 == push_str(<< >>, Scheme(is_https))
      u2 == push_str(u1, bucket_name \o << "." >> \o self.endpoint \o << "/" >> \o key)
      u3 == push_str(u2, << "?", "E", "x", "p", "i", "r", "e", "s", "=" >>)
      u4 == push_str(u3, to_string(expire_secs))
      u5 == push_str(u4, << "&", "O", "S", "S", "A", "c", "c", "e", "s", "s", "K", "e",
                            "y", "I", "d", "=" >>)
      u6 == push_str(u5, urlencoding_encode(self.access_key_id))
      u7 == push_str(u6, << "&", "S", "i", "g", "n", "a", "t", "u", "r", "e", "=" >>)
      to_be_signed == get_to_be_signed(verb, expire_secs, bucket_name, key)
      signature == to_base64(calc_hmac_sha1(as_bytes(self.access_key_secret),
                                            as_bytes(to_be_signed)))
  IN  [panic |-> FALSE, verb |-> verb, expire_secs |-> expire_secs,
       to_be_signed |-> to_be_signed,
       url |-> push_str(u7, urlencoding_encode(signature))]

Panicked(verb) ==
  [panic |-> TRUE, verb |-> verb, expire_secs |-> 0, to_be_signed |-> << >>,
   url |-> << >>]

\* A variant that signs the expiry window instead of the absolute expiry.
generate_signed_url_signs_window(self, verb, bucket_name, key, expire_in_seconds, is_https, current_secs) ==
  { IF a.panic THEN Panicked(verb)
    ELSE [SignedUrl(self, verb, bucket_name, key, a.value, is_https) EXCEPT
            !.url = SignedUrl(self, verb, bucket_name, key, expire_in_seconds,
                              is_https).url] :
    a \in u64_add(current_secs, expire_in_seconds) }

\* The results generate_signed_url can have when the clock reads current_secs:
\* the URL with what was signed, or a panic of the addition.
generate_signed_url(self, verb, bucket_name, key, expire_in_seconds, is_https, current_secs) ==
  { IF a.panic THEN Panicked(verb)
    ELSE SignedUrl(self, verb, bucket_name, key, a.value, is_https) :
    a \in u64_add(current_secs, expire_in_seconds) }

generate_signed_put_url(self, bucket_name, key, expire_in_seconds, current_secs) ==
  generate_signed_url(self, OSS_VERB_PUT, bucket_name, key, expire_in_seconds, TRUE,
                      current_secs)

generate_signed_get_url(self, bucket_name, key, expire_in_seconds, current_secs) ==
  generate_signed_url(self, OSS_VERB_GET, bucket_name, key, expire_in_seconds, TRUE,
                      current_secs)

generate_signed_delete_url(self, bucket_name, key, expire_in_seconds, current_secs) ==
  generate_signed_url(self, OSS_VERB_DELETE, bucket_name, key, expire_in_seconds, TRUE,
                      current_secs)

(***************************************************************************)
(* What a call returns.                                                    *)
(***************************************************************************)
Out(kind, text, status, bytes, c) ==
  [kind |-> kind, text |-> text, status |-> status, bytes |-> bytes, client |-> c]

NoOutcome == Out("none", << >>, 0, << >>, NoClient)
OkString(s) == Out("OkString", s, 0, << >>, NoClient)
OkClient(c) == Out("OkClient", << >>, 0, << >>, c)
OkResponse(status) == Out("OkResponse", << >>, status, << >>, NoClient)
OkNone == Out("OkNone", << >>, 0, << >>, NoClient)
OkSomeText(status, s) == Out("OkSomeText", s, status, << >>, NoClient)
OkSomeBytes(status, bs) == Out("OkSomeBytes", << >>, status, bs, NoClient)
Err(msg) == Out("Err", msg, 0, << >>, NoClient)
Panic == Out("Panic", << >>, 0, << >>, NoClient)

(***************************************************************************)
(* JSON documents: the input of from_json as json::parse reads it.  A      *)
(* document is unparsable text or a value; an object maps member names to  *)
(* values.                                                                 *)
(***************************************************************************)
JsonValue(type, s, members) == [type |-> type, s |-> s, members |-> members]

Unparsable == JsonValue("unparsable", << "{" >>, << >>)
JNull == JsonValue("null", << >>, << >>)
JNumber == JsonValue("number", << "7" >>, << >>)
JString(s) == JsonValue("string", s, << >>)
JArray == JsonValue("array", << >>, << >>)
JObject(members) == JsonValue("object", << >>, members)

MemberNames == << "endpoint", "accessKeyId", "accessKeySecret" >>

NameText(name) ==
  CASE name = "endpoint" -> << "e", "n", "d", "p", "o", "i", "n", "t" >>
    [] name = "accessKeyId" -> << "a", "c", "c", "e", "s", "s", "K", "e", "y", "I", "d" >>
    [] name = "accessKeySecret" ->
         << "a", "c", "c", "e", "s", "s", "K", "e", "y", "S", "e", "c", "r", "e", "t" >>

\* The text of a value that is no object.
ScalarText(v) ==
  CASE v.type = "null" -> << "n", "u", "l", "l" >>
    [] v.type = "string" -> << "\"" >> \o v.s \o << "\"" >>
    [] v.type = "array" -> << "[", "]" >>
    [] OTHER -> v.s

RECURSIVE MembersText(_, _)
MembersText(members, i) ==
  IF i > Len(MemberNames) THEN << >>
  ELSE LET name == MemberNames[i]
           rest == MembersText(members, i + 1)
       IN  IF name \notin DOMAIN members THEN rest
           ELSE << "\"" >> \o NameText(name) \o << "\"", ":" >>
                \o ScalarText(members[name])
                \o (IF rest = << >> THEN << >> ELSE << "," >> \o rest)

\* The characters of the document: the &str the caller passes.
json_text(json) ==
  IF json.type = "object" THEN << "{" >> \o MembersText(json.members, 1) \o << "}" >>
  ELSE ScalarText(json)

\* json::parse
json_parse(json) ==
  IF json.type = "unparsable" THEN [ok |-> FALSE, value |-> JNull]
  ELSE [ok |-> TRUE, value |-> json]

is_object(value) == value.type = "object"

\* json_value["name"]: the member, or null when there is none.
index(value, name) ==
  IF value.type = "object" /\ name \in DOMAIN value.members THEN value.members[name]
  ELSE JNull

None == [some |-> FALSE, s |-> << >>]
Some(s) == [some |-> TRUE, s |-> s]

as_str(value) == IF value.type = "string" THEN Some(value.s) ELSE None

unwrap_or_default(o) == IF o.some THEN o.s ELSE << >>

is_empty(s) == Len(s) = 0

\* A variant that rejects only when all three fields are empty.
from_json_rejects_all_empty(json) ==
  LET parsed == json_parse(json)
      endpoint == unwrap_or_default(as_str(index(parsed.value, "endpoint")))
      access_key_id == unwrap_or_default(as_str(index(parsed.value, "accessKeyId")))
      access_key_secret ==
        unwrap_or_default(as_str(index(parsed.value, "accessKeySecret")))
  IN  IF ~parsed.ok THEN Err(<< "U", "n", "e", "x", "p", "e", "c", "t", "e", "d", " ",
                             "e", "n", "d", " ", "o", "f", " ", "J", "S", "O", "N" >>)
      ELSE IF ~is_object(parsed.value) THEN
        Err(<< "J", "S", "O", "N", " ", "f", "o", "r", "m", "a", "t", " ", "e", "r",
               "o", "r", "r", ":", " " >>
            \o json_text(json))
      ELSE IF is_empty(endpoint) /\ is_empty(access_key_id)
              /\ is_empty(access_key_secret) THEN
        Err(<< "E", "n", "d", "p", "o", "i", "n", "t", ",", " ", "a", "c", "c", "e",
               "s", "s", "_", "k", "e", "y", "_", "i", "d", " ", "o", "r", " ", "a",
               "c", "c", "e", "s", "s", "_", "k", "e", "y", "_", "s", "e", "c", "r",
               "e", "t", " ", "c", "a", "n", "n", "o", "t", " ", "b", "e", " ", "e",
               "m", "p", "t", "y" >>)
      ELSE OkClient(new(endpoint, access_key_id, access_key_secret))

from_json(json) ==
  LET parsed == json_parse(json)
      endpoint == unwrap_or_default(as_str(index(parsed.value, "endpoint")))
      access_key_id == unwrap_or_default(as_str(index(parsed.value, "accessKeyId")))
      access_key_secret ==
        unwrap_or_default(as_str(index(parsed.value, "accessKeySecret")))
  IN  IF ~parsed.ok THEN Err(<< "U", "n", "e", "x", "p", "e", "c", "t", "e", "d", " ",
                             "e", "n", "d", " ", "o", "f", " ", "J", "S", "O", "N" >>)
      ELSE IF ~is_object(parsed.value) THEN
        Err(<< "J", "S", "O", "N", " ", "f", "o", "r", "m", "a", "t", " ", "e", "r",
               "o", "r", "r", ":", " " >>
            \o json_text(json))
      ELSE IF is_empty(endpoint) \/ is_empty(access_key_id)
              \/ is_empty(access_key_secret) THEN
        Err(<< "E", "n", "d", "p", "o", "i", "n", "t", ",", " ", "a", "c", "c", "e",
               "s", "s", "_", "k", "e", "y", "_", "i", "d", " ", "o", "r", " ", "a",
               "c", "c", "e", "s", "s", "_", "k", "e", "y", "_", "s", "e", "c", "r",
               "e", "t", " ", "c", "a", "n", "n", "o", "t", " ", "b", "e", " ", "e",
               "m", "p", "t", "y" >>)
      ELSE OkClient(new(endpoint, access_key_id, access_key_secret))

(***************************************************************************)
(* from_file: the path, the HOME variable and the file system.             *)
(***************************************************************************)
starts_with_tilde_slash(f) == Len(f) >= 2 /\ f[1] = "~" /\ f[2] = "/"

skip(f, n) == SubSeq(f, n + 1, Len(f))

\* PathBuf::join: an absolute path replaces the base; otherwise the path is
\* appended, after a separator when the base does not end in one.
PathBuf_join(base, path) ==
  IF Len(path) > 0 /\ path[1] = "/" THEN path
  ELSE IF Len(base) > 0 /\ base[Len(base)] # "/" THEN base \o << "/" >> \o path
  ELSE base \o path

\* env::var("HOME")
HomeUnset == [set |-> FALSE, value |-> << >>]
HomeSet(value) == [set |-> TRUE, value |-> value]

\* fs::read_to_string
ReadFails == [ok |-> FALSE, content |-> JNull]
ReadGives(json) == [ok |-> TRUE, content |-> json]

\* What from_file returns and the paths it reads, given the environment and what
\* reading the path gives.
from_file(f, home, file) ==
  IF starts_with_tilde_slash(f) /\ ~home.set THEN
    [outcome |-> Err(<< "e", "n", "v", "i", "r", "o", "n", "m", "e", "n", "t", " ",
                        "v", "a", "r", "i", "a", "b", "l", "e", " ", "n", "o", "t",
                        " ", "f", "o", "u", "n", "d" >>),
     reads |-> << >>]
  ELSE
    LET f_path_buf == IF starts_with_tilde_slash(f)
                      THEN PathBuf_join(home.value, skip(f, 2))
                      ELSE f
    IN  [outcome |-> IF file.ok THEN from_json(file.content)
                     ELSE Err(<< "N", "o", " ", "s", "u", "c", "h", " ", "f", "i", "l", "e",
                            " ", "o", "r", " ", "d", "i", "r", "e", "c", "t", "o", "r",
                            "y" >>),
         reads |-> << f_path_buf >>]

(***************************************************************************)
(* #[derive(Debug)] of OSSClient.                                          *)
(***************************************************************************)
\* str's Debug: the text in double quotes, with quotes, backslashes and line
\* feeds escaped.
RECURSIVE escape_debug(_)
escape_debug(s) ==
  IF s = << >> THEN << >>
  ELSE LET c == Head(s)
           e == CASE c = "\"" -> << "\\", "\"" >>
                  [] c = "\\" -> << "\\", "\\" >>
                  [] c = "\n" -> << "\\", "n" >>
                  [] OTHER -> << c >>
       IN  e \o escape_debug(Tail(s))

str_debug(s) == << "\"" >> \o escape_debug(s) \o << "\"" >>

fmt_debug(self) ==
  << "O", "S", "S", "C", "l", "i", "e", "n", "t", " ", "{", " ", "e", "n", "d", "p",
     "o", "i", "n", "t", ":", " " >>
  \o str_debug(self.endpoint)
  \o << ",", " ", "a", "c", "c", "e", "s", "s", "_", "k", "e", "y", "_", "i", "d", ":",
        " " >>
  \o str_debug(self.access_key_id)
  \o << ",", " ", "a", "c", "c", "e", "s", "s", "_", "k", "e", "y", "_", "s", "e", "c",
        "r", "e", "t", ":", " " >>
  \o str_debug(self.access_key_secret)
  \o << " ", "}" >>

(***************************************************************************)
(* The inputs that are enumerated.                                         *)
(***************************************************************************)
Endpoints == { << "o", ".", "c" >> }
AccessKeyIds == { << "A", "K" >>, << "a", "+", "/", "=" >> }
Secrets == { << "s", "!" >>, << "S", "*", "2" >> }

Verbs == { OSS_VERB_GET, << "g", "e", "t" >>, << "H", "E", "A", "D" >> }
Buckets == { << "b" >>, << "b", "-", "2" >> }
Keys == { << >>, << "k" >>, << "d", "/", "k" >> }
ExpireInputs == 0..MaxU64
\* The expiry windows given to the wrappers and to put_file: none, the window the
\* library itself uses, and the largest.
WindowInputs == { 0, 30, MaxU64 }
ClockReadings == 0..MaxClock

\* What the member of each name may hold besides null, a number and "".
MemberStrings(name) ==
  CASE name = "endpoint" -> Endpoints
    [] name = "accessKeyId" -> AccessKeyIds
    [] name = "accessKeySecret" -> Secrets

MemberChoices(name) ==
  { JNull, JNumber, JString(<< >>) } \cup { JString(x) : x \in MemberStrings(name) }

NameSet == { MemberNames[i] : i \in 1..Len(MemberNames) }

JsonObjects ==
  { JObject(m) :
      m \in { f \in UNION { [S -> UNION { MemberChoices(n) : n \in NameSet }] :
                            S \in SUBSET NameSet } :
              \A n \in DOMAIN f : f[n] \in MemberChoices(n) } }

JsonInputs ==
  { Unparsable, JNull, JNumber, JArray, JString(<< "x" >>) } \cup JsonObjects

ValidJson ==
  JObject([n \in NameSet |-> JString(CHOOSE x \in MemberStrings(n) : TRUE)])

Paths ==
  { << "~", "/", "c" >>, << "~", "/", "/", "e", "/", "c" >>, << "~", "/" >>,
    << "/", "e", "/", "c" >>, << "c" >>, << "~", "c" >>, << "~" >> }
HomeValues == { HomeUnset, HomeSet(<< "/", "h" >>), HomeSet(<< "/", "h", "/" >>) }
FileResults ==
  { ReadFails, ReadGives(ValidJson), ReadGives(Unparsable),
    ReadGives(JObject([endpoint |-> JString(CHOOSE x \in Endpoints : TRUE)])) }

Statuses == { 200, 204, 206, 403, 404, 500 }
Payloads == { << >>, << 104, 105 >> }
Texts == { << >>, << "h", "i" >> }
Files ==
  { [readable |-> FALSE, content |-> << >>] }
  \cup { [readable |-> TRUE, content |-> b] : b \in Payloads }

(***************************************************************************)
(* State.                                                                  *)
(***************************************************************************)
VARIABLES
  client,    \* the OSSClient the caller holds
  call,      \* the call in progress or last made: its name and arguments
  pc,        \* "idle", "sent" (awaiting send), "body" (awaiting the body), "done"
  signed,    \* what the call has signed: a sequence of signer results
  requests,  \* the HTTP requests the call has issued, in order
  response,  \* the response the HTTP collaborator gave the call
  outcome,   \* what the call returned
  reads      \* the files the call has read

vars == << client, call, pc, signed, requests, response, outcome, reads >>

\* body: "unread", "read" (with the bytes that arrived) or "failed".
Response(status, body, bytes) ==
  [received |-> TRUE, status |-> status, body |-> body, bytes |-> bytes]

NoResponse == [received |-> FALSE, status |-> 0, body |-> "unread", bytes |-> << >>]

Init ==
  /\ client = NoClient
  /\ call = [op |-> "none"]
  /\ pc = "idle"
  /\ signed = << >>
  /\ requests = << >>
  /\ response = NoResponse
  /\ outcome = NoOutcome
  /\ reads = << >>

\* No call is in progress: the caller may make one.
Ready == pc = "idle"

\* A call that runs to its end without suspending.
Returns(c, o, s, r) ==
  /\ call' = c
  /\ outcome' = o
  /\ signed' = s
  /\ reads' = r
  /\ requests' = << >>
  /\ response' = NoResponse
  /\ pc' = "done"

New ==
  /\ Ready
  /\ \E endpoint \in Endpoints, access_key_id \in AccessKeyIds,
        access_key_secret \in Secrets :
       /\ client' = new(endpoint, access_key_id, access_key_secret)
       /\ Returns([op |-> "new"], OkClient(client'), << >>, << >>)

SignCall(op, verb, bucket_name, key, expire_in_seconds, is_https, current_secs) ==
  [op |-> op, verb |-> verb, bucket_name |-> bucket_name, key |-> key,
   expire_in_seconds |-> expire_in_seconds, is_https |-> is_https,
   current_secs |-> current_secs]

SignReturns(c, r) ==
  /\ Returns(c, IF r.panic THEN Panic ELSE OkString(r.url),
             IF r.panic THEN << >> ELSE << r >>, << >>)
  /\ UNCHANGED client

GenerateSignedUrl ==
  /\ Ready
  /\ client.constructed
  /\ \E verb \in Verbs, bucket_name \in Buckets, key \in Keys,
        expire_in_seconds \in ExpireInputs, is_https \in BOOLEAN,
        current_secs \in ClockReadings :
       \E r \in generate_signed_url(client, verb, bucket_name, key, expire_in_seconds,
                                    is_https, current_secs) :
         SignReturns(SignCall("generate_signed_url", verb, bucket_name, key,
                              expire_in_seconds, is_https, current_secs), r)

GenerateSignedPutUrl ==
  /\ Ready
  /\ client.constructed
  /\ \E bucket_name \in Buckets, key \in Keys, expire_in_seconds \in WindowInputs,
        current_secs \in ClockReadings :
       \E r \in generate_signed_put_url(client, bucket_name, key, expire_in_seconds,
                                        current_secs) :
         SignReturns(SignCall("generate_signed_put_url", OSS_VERB_PUT, bucket_name, key,
                              expire_in_seconds, TRUE, current_secs), r)

GenerateSignedGetUrl ==
  /\ Ready
  /\ client.constructed
  /\ \E bucket_name \in Buckets, key \in Keys, expire_in_seconds \in WindowInputs,
        current_secs \in ClockReadings :
       \E r \in generate_signed_get_url(client, bucket_name, key, expire_in_seconds,
                                        current_secs) :
         SignReturns(SignCall("generate_signed_get_url", OSS_VERB_GET, bucket_name, key,
                              expire_in_seconds, TRUE, current_secs), r)

GenerateSignedDeleteUrl ==
  /\ Ready
  /\ client.constructed
  /\ \E bucket_name \in Buckets, key \in Keys, expire_in_seconds \in WindowInputs,
        current_secs \in ClockReadings :
       \E r \in generate_signed_delete_url(client, bucket_name, key, expire_in_seconds,
                                           current_secs) :
         SignReturns(SignCall("generate_signed_delete_url", OSS_VERB_DELETE,
                              bucket_name, key, expire_in_seconds, TRUE, current_secs), r)

(***************************************************************************)
(* The object operations, up to and after each point where they suspend.   *)
(***************************************************************************)
Request(method, url, body) == [method |-> method, url |-> url, body |-> body]

\* Debug of the response, as far as the library's message shows it.
response_debug(url, status) ==
  << "R", "e", "s", "p", "o", "n", "s", "e", " ", "{", " ", "u", "r", "l", ":", " " >>
  \o url \o << ",", " ", "s", "t", "a", "t", "u", "s", ":", " " >>
  \o to_string(status) \o << " ", "}" >>

read_error(bucket_name, key, url, status) ==
  Err(<< "E", "r", "r", "o", "r", " ", "i", "n", " ", "r", "e", "a", "d", ":", " " >>
      \o bucket_name \o << "/" >> \o key
      \o << ",", " ", "r", "e", "t", "u", "r", "n", "s", ":", " " >>
      \o response_debug(url, status))

\* The error of reqwest when the body cannot be read.
body_error ==
  Err(<< "e", "r", "r", "o", "r", " ", "d", "e", "c", "o", "d", "i", "n", "g", " ", "r",
         "e", "s", "p", "o", "n", "s", "e", " ", "b", "o", "d", "y" >>)

\* The error of reqwest when no response arrives.
reqwest_error == Err(<< "e", "r", "r", "o", "r", " ", "s", "e", "n", "d", "i", "n",
                        "g", " ", "r", "e", "q", "u", "e", "s", "t" >>)

\* The error of File::read_to_end.
io_error == Err(<< "I", "s", " ", "a", " ", "d", "i", "r", "e", "c", "t", "o", "r",
                   "y" >>)

\* The arm the match on response.status() takes in get_file_content.
get_file_content_match_any_2xx(status) ==
  CASE status = 404 -> "OkNone"
    [] status >= 200 /\ status < 300 -> "ReadBody"
    [] OTHER -> "Err"

get_file_content_match(status) ==
  CASE status = 404 -> "OkNone"
    [] status = 200 -> "ReadBody"
    [] OTHER -> "Err"

\* The arm the match on response.status() takes in get_file_content_bytes.
get_file_content_bytes_match(status) ==
  CASE status = 404 -> "OkNone"
    [] status = 200 -> "ReadBody"
    [] OTHER -> "Err"

\* What put_file, put_file_content_bytes and delete_file make of a response.
send_returns_err_unless_2xx(status) ==
  IF status >= 200 /\ status < 300 THEN OkResponse(status) ELSE reqwest_error

send_returns(status) == OkResponse(status)

OpCall(op, bucket_name, key, expire_in_seconds, current_secs) ==
  [op |-> op, bucket_name |-> bucket_name, key |-> key,
   expire_in_seconds |-> expire_in_seconds, current_secs |-> current_secs]

\* The call signed (or panicked in signing) and then either ended with outcome o
\* before any request or issued the requests and suspended.
Proceeds(c, r, o, reqs) ==
  /\ call' = c
  /\ signed' = IF r.panic THEN << >> ELSE << r >>
  /\ requests' = IF r.panic \/ o.kind # "none" THEN << >> ELSE reqs
  /\ outcome' = IF r.panic THEN Panic ELSE o
  /\ pc' = IF r.panic \/ o.kind # "none" THEN "done" ELSE "sent"
  /\ response' = NoResponse
  /\ reads' = << >>
  /\ UNCHANGED client

PutFile ==
  /\ Ready
  /\ client.constructed
  /\ \E bucket_name \in Buckets, key \in Keys, expire_in_seconds \in WindowInputs,
        current_secs \in ClockReadings, file \in Files :
       \E r \in generate_signed_put_url(client, bucket_name, key, expire_in_seconds,
                                        current_secs) :
         Proceeds(OpCall("put_file", bucket_name, key, expire_in_seconds, current_secs),
                  r, IF file.readable THEN NoOutcome ELSE io_error,
                  << Request(OSS_VERB_PUT, r.url, file.content) >>)

DeleteFile ==
  /\ Ready
  /\ client.constructed
  /\ \E bucket_name \in Buckets, key \in Keys, current_secs \in ClockReadings :
       \E r \in generate_signed_delete_url(client, bucket_name, key, 30, current_secs) :
         Proceeds(OpCall("delete_file", bucket_name, key, 30, current_secs),
                  r, NoOutcome, << Request(OSS_VERB_DELETE, r.url, << >>) >>)

GetFileContent ==
  /\ Ready
  /\ client.constructed
  /\ \E bucket_name \in Buckets, key \in Keys, current_secs \in ClockReadings :
       \E r \in generate_signed_get_url(client, bucket_name, key, 30, current_secs) :
         Proceeds(OpCall("get_file_content", bucket_name, key, 30, current_secs),
                  r, NoOutcome, << Request(OSS_VERB_GET, r.url, << >>) >>)

GetFileContentBytes ==
  /\ Ready
  /\ client.constructed
  /\ \E bucket_name \in Buckets, key \in Keys, current_secs \in ClockReadings :
       \E r \in generate_signed_get_url(client, bucket_name, key, 30, current_secs) :
         Proceeds(OpCall("get_file_content_bytes", bucket_name, key, 30, current_secs),
                  r, NoOutcome, << Request(OSS_VERB_GET, r.url, << >>) >>)

PutFileContentBytes ==
  /\ Ready
  /\ client.constructed
  /\ \E bucket_name \in Buckets, key \in Keys, current_secs \in ClockReadings,
        content_bytes \in Payloads :
       \E r \in generate_signed_put_url(client, bucket_name, key, 30, current_secs) :
         Proceeds(OpCall("put_file_content_bytes", bucket_name, key, 30, current_secs),
                  r, NoOutcome, << Request(OSS_VERB_PUT, r.url, content_bytes) >>)

\* put_file_content hands content.as_bytes() to put_file_content_bytes.
PutFileContent ==
  /\ Ready
  /\ client.constructed
  /\ \E bucket_name \in Buckets, key \in Keys, current_secs \in ClockReadings,
        content \in Texts :
       \E r \in generate_signed_put_url(client, bucket_name, key, 30, current_secs) :
         Proceeds(OpCall("put_file_content", bucket_name, key, 30, current_secs),
                  r, NoOutcome, << Request(OSS_VERB_PUT, r.url, as_bytes(content)) >>)

IsGet == call.op \in {"get_file_content", "get_file_content_bytes"}

GetMatch(status) ==
  IF call.op = "get_file_content" THEN get_file_content_match(status)
  ELSE get_file_content_bytes_match(status)

\* send().await gives an error: no response.
HttpFails ==
  /\ pc = "sent"
  /\ outcome' = reqwest_error
  /\ pc' = "done"
  /\ UNCHANGED << client, call, signed, requests, response, reads >>

\* send().await gives a response with a status.
HttpResponds ==
  /\ pc = "sent"
  /\ \E status \in Statuses :
       /\ response' = Response(status, "unread", << >>)
       /\ IF IsGet
          THEN LET arm == GetMatch(status)
               IN  /\ pc' = IF arm = "ReadBody" THEN "body" ELSE "done"
                   /\ outcome' = CASE arm = "OkNone" -> OkNone
                                   [] arm = "ReadBody" -> NoOutcome
                                   [] OTHER -> read_error(call.bucket_name, call.key,
                                                          requests[1].url, status)
          ELSE /\ pc' = "done"
               /\ outcome' = send_returns(status)
  /\ UNCHANGED << client, call, signed, requests, reads >>

\* response.text().await or response.bytes().await gives the body.
BodyArrives ==
  /\ pc = "body"
  /\ \E body \in Payloads :
       /\ response' = Response(response.status, "read", body)
       /\ outcome' = IF call.op = "get_file_content"
                      THEN OkSomeText(response.status, from_utf8(body))
                      ELSE OkSomeBytes(response.status, body)
  /\ pc' = "done"
  /\ UNCHANGED << client, call, signed, requests, reads >>

\* response.text().await or response.bytes().await gives an error.
BodyFails ==
  /\ pc = "body"
  /\ response' = Response(response.status, "failed", << >>)
  /\ outcome' = body_error
  /\ pc' = "done"
  /\ UNCHANGED << client, call, signed, requests, reads >>

(***************************************************************************)
(* The constructors and the Debug rendering, as calls.                     *)
(***************************************************************************)
FromJson ==
  /\ Ready
  /\ \E json \in JsonInputs :
       LET o == from_json(json)
       IN  /\ client' = IF o.kind = "OkClient" THEN o.client ELSE client
           /\ Returns([op |-> "from_json", json |-> json], o, << >>, << >>)

FromFile ==
  /\ Ready
  /\ \E f \in Paths, home \in HomeValues, file \in FileResults :
       LET got == from_file(f, home, file)
       IN  /\ client' = IF got.outcome.kind = "OkClient" THEN got.outcome.client
                        ELSE client
           /\ Returns([op |-> "from_file", f |-> f, home |-> home, file |-> file],
                      got.outcome, << >>, got.reads)

FmtDebug ==
  /\ Ready
  /\ client.constructed
  /\ Returns([op |-> "fmt_debug"], OkString(fmt_debug(client)), << >>, << >>)
  /\ UNCHANGED client

\* The caller takes the value a finished call returned; the call is over.
Drop ==
  /\ pc = "done"
  /\ pc' = "idle"
  /\ call' = [op |-> "none"]
  /\ outcome' = NoOutcome
  /\ signed' = << >>
  /\ requests' = << >>
  /\ response' = NoResponse
  /\ reads' = << >>
  /\ UNCHANGED client

Next ==
  \/ Drop
  \/ New
  \/ GenerateSignedUrl
  \/ GenerateSignedPutUrl
  \/ GenerateSignedGetUrl
  \/ GenerateSignedDeleteUrl
  \/ FromJson
  \/ FromFile
  \/ FmtDebug
  \/ PutFile
  \/ DeleteFile
  \/ GetFileContent
  \/ GetFileContentBytes
  \/ PutFileContentBytes
  \/ PutFileContent
  \/ HttpFails
  \/ HttpResponds
  \/ BodyArrives
  \/ BodyFails

Spec == Init /\ [][Next]_vars

(***************************************************************************)
(* What the claims are stated with.                                        *)
(***************************************************************************)
SignOps ==
  { "generate_signed_url", "generate_signed_put_url", "generate_signed_get_url",
    "generate_signed_delete_url" }
PutOps == { "put_file", "put_file_content", "put_file_content_bytes" }
GetOps == { "get_file_content", "get_file_content_bytes" }
ObjectOps == PutOps \cup GetOps \cup { "delete_file" }

LF == "\n"

\* The value of a sequence of decimal digits.
RECURSIVE DecimalValue(_)
DecimalValue(ds) ==
  IF ds = << >> THEN 0
  ELSE (10 * DecimalValue(SubSeq(ds, 1, Len(ds) - 1)))
       + ((CHOOSE i \in 1..10 : DecDigits[i] = ds[Len(ds)]) - 1)

\* ds is the decimal numeral of n: digits only, no leading zero, of value n.
IsDecimalOf(ds, n) ==
  /\ Len(ds) >= 1
  /\ \A i \in 1..Len(ds) : \E j \in 1..10 : DecDigits[j] = ds[i]
  /\ Len(ds) > 1 => ds[1] # "0"
  /\ DecimalValue(ds) = n

\* The canonical string the specification gives: <verb> LF LF LF <expiry> LF
\* '/' <bucket> '/' <key>, with nothing after the key.
Canonical(verb, digits, bucket, key) ==
  verb \o << LF, LF, LF >> \o digits \o << LF >> \o << "/" >> \o bucket \o << "/" >>
       \o key

\* The part of a canonical string s where the expiry stands.
ExpiryOf(s, verb, bucket, key) ==
  SubSeq(s, Len(verb) + 4, Len(s) - (Len(bucket) + Len(key) + 3))

\* Whether pat occurs in s.
Contains(s, pat) ==
  \E i \in 0..(Len(s) - Len(pat)) : SubSeq(s, i + 1, i + Len(pat)) = pat

\* C1: every string get_to_be_signed returns is <verb> LF LF LF <decimal expiry>
\* LF '/' <bucket> '/' <key>: three line feeds after the verb, one between the
\* expiry and the resource path, bucket and key verbatim, nothing after the key.
C1_CanonicalString ==
  \A i \in 1..Len(signed) :
    LET r == signed[i]
        digits == ExpiryOf(r.to_be_signed, r.verb, call.bucket_name, call.key)
    IN  /\ IsDecimalOf(digits, r.expire_secs)
        /\ r.to_be_signed = Canonical(r.verb, digits, call.bucket_name, call.key)
        /\ call.op \in SignOps => r.verb = call.verb

\* generate_signed_url built a canonical string for a key that holds a '/', with
\* an expiry of two digits.
C1_Witness ==
  /\ call.op = "generate_signed_url"
  /\ Len(signed) = 1
  /\ signed[1].expire_secs >= 10
  /\ call.key = << "d", "/", "k" >>

\* C2: the URL generate_signed_url returns is <scheme>://<bucket>.<endpoint>/<key>
\* ?Expires=<E>&OSSAccessKeyId=<urlencode(id)>&Signature=<urlencode(base64(HMAC(
\* secret, canonical(verb, E, bucket, key))))>, with https exactly when is_https,
\* and the E of Expires is the E of the signed canonical string.
C2_SignedUrlShape ==
  (call.op \in SignOps /\ outcome.kind = "OkString") =>
    /\ Len(signed) = 1
    /\ LET E == signed[1].expire_secs
           digits == to_string(E)
           canonical == Canonical(call.verb, digits, call.bucket_name, call.key)
           signature == base64_encode(calc_hmac_sha1(as_bytes(client.access_key_secret),
                                                     as_bytes(canonical)))
       IN  /\ signed[1].to_be_signed = canonical
           /\ outcome.text =
                (IF call.is_https THEN << "h", "t", "t", "p", "s" >>
                 ELSE << "h", "t", "t", "p" >>)
                \o << ":", "/", "/" >> \o call.bucket_name \o << "." >>
                \o client.endpoint \o << "/" >> \o call.key
                \o << "?", "E", "x", "p", "i", "r", "e", "s", "=" >> \o digits
                \o << "&", "O", "S", "S", "A", "c", "c", "e", "s", "s", "K", "e", "y",
                      "I", "d", "=" >>
                \o urlencoding_encode(client.access_key_id)
                \o << "&", "S", "i", "g", "n", "a", "t", "u", "r", "e", "=" >>
                \o urlencoding_encode(signature)

\* An http URL was returned for the empty key, by a client whose id needs
\* percent-encoding, at a clock reading other than 0.
C2_Witness ==
  /\ call.op = "generate_signed_url"
  /\ outcome.kind = "OkString"
  /\ ~call.is_https
  /\ call.key = << >>
  /\ call.current_secs > 0
  /\ call.expire_in_seconds > 0
  /\ client.access_key_id = << "a", "+", "/", "=" >>

\* C3: generate_signed_url completes for every clock reading T and every window d,
\* and the expiry it emits is the sum T + d.
C3_ExpiryIsSum ==
  (call.op = "generate_signed_url" /\ pc = "done") =>
    /\ outcome.kind = "OkString"
    /\ Len(signed) = 1
    /\ signed[1].expire_secs = call.current_secs + call.expire_in_seconds
    /\ signed[1].expire_secs >= call.current_secs

\* What the get operations classify: a response whose status has been matched.
GetClassified == call.op \in GetOps /\ pc = "done" /\ response.received

Found ==
  IF call.op = "get_file_content"
  THEN OkSomeText(response.status, from_utf8(response.bytes))
  ELSE OkSomeBytes(response.status, response.bytes)

\* C4, as claimed: status 404 gives Ok(None), 200 gives Ok(Some(body)), every other
\* status an error, the same for both accessors.
C4_StatusClassification ==
  GetClassified =>
    /\ response.status = 404 => outcome.kind = "OkNone"
    /\ response.status = 200 => outcome.kind \in {"OkSomeText", "OkSomeBytes"}
    /\ response.status \notin {200, 404} => outcome.kind = "Err"

\* C4, amended: status 404 gives Ok(None); 200 gives Ok(Some(body)) when the body
\* is read and an error when reading it fails; every other status an error; the
\* same for both accessors.
C4_StatusClassificationBodyRead ==
  GetClassified =>
    /\ response.status = 404 => outcome = OkNone
    /\ (response.status = 200 /\ response.body = "read") => outcome = Found
    /\ (response.status = 200 /\ response.body # "read") =>
         (response.body = "failed" /\ outcome.kind = "Err")
    /\ response.status \notin {200, 404} => outcome.kind = "Err"
    /\ response.status # 200 => response.body = "unread"

\* get_file_content_bytes returned the body of a 200 response.
C4_Witness ==
  /\ GetClassified
  /\ call.op = "get_file_content_bytes"
  /\ response.status = 200
  /\ outcome.kind = "OkSomeBytes"
  /\ outcome.bytes # << >>

FailureStatus(status) == ~(status >= 200 /\ status < 300) /\ status # 404

\* C5, as claimed: every object operation answered with a status that is neither
\* 2xx nor 404 ends in an error.
C5_FailureStatusIsError ==
  (call.op \in ObjectOps /\ pc = "done" /\ response.received
   /\ FailureStatus(response.status)) => outcome.kind = "Err"

\* C5, amended: answered with a status that is neither 2xx nor 404, the get
\* operations end in an error, and put_file, put_file_content,
\* put_file_content_bytes and delete_file return Ok with the response of that
\* status.
C5_FailureStatusByOperation ==
  (call.op \in ObjectOps /\ pc = "done" /\ response.received
   /\ FailureStatus(response.status)) =>
    /\ call.op \in GetOps => outcome.kind = "Err"
    /\ call.op \notin GetOps => outcome = OkResponse(response.status)

\* delete_file was answered 500.
C5_Witness ==
  /\ call.op = "delete_file"
  /\ pc = "done"
  /\ response.received
  /\ response.status = 500

\* The document is an object whose three members are non-empty strings.
ValidConfig(json) ==
  /\ json.type = "object"
  /\ \A n \in NameSet :
       /\ n \in DOMAIN json.members
       /\ json.members[n].type = "string"
       /\ json.members[n].s # << >>

\* C6: from_json succeeds exactly when the input is an object with endpoint,
\* accessKeyId and accessKeySecret present as non-empty strings; the client then
\* holds those values, and otherwise an error is returned and no client made.
C6_FromJson ==
  call.op = "from_json" =>
    /\ outcome.kind = "OkClient" <=> ValidConfig(call.json)
    /\ ValidConfig(call.json) =>
         /\ outcome.client.constructed
         /\ outcome.client.endpoint = call.json.members["endpoint"].s
         /\ outcome.client.access_key_id = call.json.members["accessKeyId"].s
         /\ outcome.client.access_key_secret = call.json.members["accessKeySecret"].s
         /\ client = outcome.client
    /\ ~ValidConfig(call.json) =>
         /\ outcome.kind = "Err"
         /\ ~outcome.client.constructed

\* from_json made a client from a document whose id needs percent-encoding.
C6_Witness ==
  /\ call.op = "from_json"
  /\ outcome.kind = "OkClient"
  /\ outcome.client.access_key_id = << "a", "+", "/", "=" >>

\* A path with every run of '/' made one '/': the file it names.
RECURSIVE Normalize(_)
Normalize(path) ==
  IF Len(path) <= 1 THEN path
  ELSE IF path[1] = "/" /\ path[2] = "/" THEN Normalize(Tail(path))
  ELSE << path[1] >> \o Normalize(Tail(path))

\* C7: from_file reads <HOME>/<rest> for every path ~/<rest>, reads any other
\* path unchanged, and with HOME unset returns an error for a ~/ path without
\* reading a file.
C7_HomeExpansion ==
  call.op = "from_file" =>
    IF Len(call.f) >= 2 /\ SubSeq(call.f, 1, 2) = << "~", "/" >>
    THEN IF call.home.set
         THEN /\ Len(reads) = 1
              /\ Normalize(reads[1]) =
                   Normalize(call.home.value \o << "/" >>
                             \o SubSeq(call.f, 3, Len(call.f)))
         ELSE outcome.kind = "Err" /\ reads = << >>
    ELSE reads = << call.f >>

\* The text up to the value of Signature.
RECURSIVE UpToSignature(_)
UpToSignature(url) ==
  IF url = << >>
     \/ (Len(url) >= 11
         /\ SubSeq(url, Len(url) - 10, Len(url))
              = << "&", "S", "i", "g", "n", "a", "t", "u", "r", "e", "=" >>)
  THEN url
  ELSE UpToSignature(SubSeq(url, 1, Len(url) - 1))

\* What the rendering or the signed URL of the last call would be for a client c.
OutputOf(c) ==
  IF call.op = "fmt_debug" THEN fmt_debug(c)
  ELSE SignedUrl(c, call.verb, call.bucket_name, call.key, signed[1].expire_secs,
                 call.is_https).url

\* C8: no string the library produces holds the secret as text, and the outputs of
\* two clients that differ only in the secret differ only in the Signature value.
C8_SecretNeverInOutput ==
  /\ (pc = "done" /\ client.constructed /\ call.op # "from_json"
      /\ call.op # "from_file") =>
       ~Contains(outcome.text, client.access_key_secret)
  /\ (call.op = "from_json" /\ outcome.kind = "Err" /\ call.json.type = "object"
      /\ "accessKeySecret" \in DOMAIN call.json.members
      /\ call.json.members["accessKeySecret"].s # << >>) =>
       ~Contains(outcome.text, call.json.members["accessKeySecret"].s)
  /\ ((call.op \in SignOps \/ call.op = "fmt_debug") /\ outcome.kind = "OkString") =>
       \A s \in Secrets :
         UpToSignature(OutputOf([client EXCEPT !.access_key_secret = s]))
           = UpToSignature(outcome.text)

\* C9: the verb of every canonical string that is signed is GET, PUT or DELETE.
C9_VerbIsGetPutDelete ==
  \A i \in 1..Len(signed) :
    \E verb \in { OSS_VERB_GET, OSS_VERB_PUT, OSS_VERB_DELETE } :
      /\ Len(signed[i].to_be_signed) > Len(verb)
      /\ SubSeq(signed[i].to_be_signed, 1, Len(verb) + 1) = verb \o << LF >>

\* The verb each object operation is to sign and send.
VerbOfOp(op) ==
  IF op \in PutOps THEN OSS_VERB_PUT
  ELSE IF op \in GetOps THEN OSS_VERB_GET
  ELSE OSS_VERB_DELETE

\* C10: an object operation signs exactly one URL and issues at most one request,
\* of the signed verb to the signed URL; a failure to connect or to read the body
\* ends it with an error and no further request; and it ends in one outcome: a
\* success value, NotFound or an error.
C10_OneExchange ==
  (call.op \in ObjectOps /\ pc # "idle") =>
    /\ Len(signed) = 1
    /\ Len(requests) <= 1
    /\ \A i \in 1..Len(requests) :
         /\ requests[i].method = signed[1].verb
         /\ requests[i].method = VerbOfOp(call.op)
         /\ requests[i].url = signed[1].url
    /\ pc \in {"sent", "body"} => (Len(requests) = 1 /\ outcome.kind = "none")
    /\ pc = "done" =>
         outcome.kind \in {"OkResponse", "OkNone", "OkSomeText", "OkSomeBytes", "Err"}
    /\ (pc = "done" /\ (~response.received \/ response.body = "failed")) =>
         outcome.kind = "Err"

====
